---- MODULE Spec2Model ----
(***************************************************************************)
(* Model of pfsspy/tracing.py: Tracer.validate_seeds_shape and             *)
(* PythonTracer.__init__ / PythonTracer.trace.                             *)
(*                                                                         *)
(* An n-dimensional numpy array is a record [shape, data]: shape is the    *)
(* tuple of dimensions and data the elements in row-major order.  A 2-D    *)
(* array produced inside trace is a sequence of rows.  Python's 0-based    *)
(* seeds.shape[1] is shape[2] here.                                        *)
(*                                                                         *)
(* output._integrate_one_way and the field solution are not part of the    *)
(* source under study; they are modelled after sections 4.2 and 6 of the   *)
(* specification, on a one-dimensional radial grid.                        *)
(***************************************************************************)
EXTENDS Integers, Sequences, FiniteSets, TLC

VARIABLES pc, self, arg, output, seeds, i, xforw, flines, calls, err

vars == <<pc, self, arg, output, seeds, i, xforw, flines, calls, err>>

----------------------------------------------------------------------------
(* Bounds of the model *)

\* largest number of seeds in a batch
MaxSeeds == 2

\* the integrator's maximum step count
MaxSteps == 2

----------------------------------------------------------------------------
(* Numbers *)

\* atol=1e-4, rtol=1e-4: tolerances are counted in units of 1e-4
DefaultTol == 1

\* normalised inner boundary radius of the shell
RInner == 1

\* normalised outer (source surface) radius of the shell, in grid cells
ROuter == 3

Shell == RInner..ROuter

\* IEEE non-finite values, kept apart from every finite coordinate the
\* model can produce
PosInf == ROuter + MaxSteps + 1

NaN == PosInf + 1

IsFinite(c) == c # PosInf /\ c # NaN

Tols == {0 - DefaultTol, 0, DefaultTol}

----------------------------------------------------------------------------
(* numpy helpers *)

ndim(a) == Len(a.shape)

RECURSIVE Prod(_)
Prod(s) == IF s = <<>> THEN 1 ELSE Head(s) * Prod(Tail(s))

Reverse(s) == [k \in 1..Len(s) |-> s[Len(s) + 1 - k]]

\* np.atleast_2d: rank 0 becomes (1, 1), rank 1 becomes (1, k), others are kept
atleast_2d_noop(a) == a

atleast_2d(a) ==
  IF ndim(a) = 0 THEN [shape |-> <<1, 1>>, data |-> a.data]
  ELSE IF ndim(a) = 1 THEN [shape |-> <<1, a.shape[1]>>, data |-> a.data]
  ELSE a

\* len(seeds) and the i-th item of `for seed in seeds`
NumRows(a) == a.shape[1]

RowSize(a) == Prod(Tail(a.shape))

SeedAt(a, k) == SubSeq(a.data, (k - 1) * RowSize(a) + 1, k * RowSize(a))

\* a.T of a 2-D array given as a non-empty sequence of rows
Transpose(a) == [c \in 1..Len(a[1]) |-> [r \in 1..Len(a) |-> a[r][c]]]

\* np.flip(a, axis=1)
flip_axis1_noop(a) == a

flip_axis1(a) == [r \in 1..Len(a) |-> Reverse(a[r])]

\* np.row_stack((a, b))
row_stack(a, b) == a \o b

\* xout[:, c]
Column(a, c) == [r \in 1..Len(a) |-> a[r][c]]

\* q * const.R_sun
TimesRsun(col) == [value |-> col, unit |-> "R_sun"]

----------------------------------------------------------------------------
(* Tracer.validate_seeds_shape: the exception it raises, "None" for none *)

validate_seeds_shape_width_first(sds) ==
  IF ndim(sds) < 2 THEN "IndexError"
  ELSE IF ~(sds.shape[2] = 3) THEN "ValueError_n3"
  ELSE IF ~(ndim(sds) = 2) THEN "ValueError_2D"
  ELSE "None"

validate_seeds_shape_no_width(sds) ==
  IF ~(ndim(sds) = 2) THEN "ValueError_2D" ELSE "None"

validate_seeds_shape(sds) ==
  IF ~(ndim(sds) = 2) THEN "ValueError_2D"
  ELSE IF ~(sds.shape[2] = 3) THEN "ValueError_n3"
  ELSE "None"

IsShapeError(e) == e \in {"ValueError_2D", "ValueError_n3"}

----------------------------------------------------------------------------
(* PythonTracer.__init__ *)

init(atol, rtol) == [atol |-> atol, rtol |-> rtol]

----------------------------------------------------------------------------
(* The field solution and output._integrate_one_way (specification 4.2) *)

FieldKinds == {"out", "in", "azim", "null"}

\* radial profiles: outward everywhere but for one cell
FieldProfiles ==
  {[r \in Shell |-> IF r = k THEN b ELSE "out"] : k \in Shell, b \in FieldKinds}

Outputs == {[dtime |-> "t0", B |-> f] : f \in FieldProfiles}

FieldAt(out, p) ==
  IF Len(p) = 3 /\ (\A k \in 1..3 : IsFinite(p[k])) /\ p[1] \in Shell
  THEN out.B[p[1]]
  ELSE "nan"

Clamp(r) == IF r < RInner THEN RInner ELSE IF r > ROuter THEN ROuter ELSE r

\* one accepted step of dx/ds = dir * B/|B|
Advance(p, b, dir) ==
  CASE b = "out"  -> [p EXCEPT ![1] = Clamp(p[1] + dir)]
    [] b = "in"   -> [p EXCEPT ![1] = Clamp(p[1] - dir)]
    [] b = "azim" -> [p EXCEPT ![3] = p[3] + dir]
    [] OTHER      -> [k \in 1..Len(p) |-> NaN]

\* stopping conditions (a), (b), (c), checked after every accepted step
StopStatus(q, steps) ==
  IF Len(q) >= 1 /\ IsFinite(q[1]) /\ q[1] <= RInner THEN "reached-inner"
  ELSE IF Len(q) >= 1 /\ IsFinite(q[1]) /\ q[1] >= ROuter THEN "reached-outer"
  ELSE IF steps >= MaxSteps THEN "max-steps-exceeded"
  ELSE "running"

RECURSIVE Walk(_, _, _, _)
Walk(out, dir, p, steps) ==
  LET b == FieldAt(out, p) IN
  IF b = "null" THEN [path |-> <<p>>, status |-> "NullFieldError"]
  ELSE LET q  == Advance(p, b, dir)
           st == StopStatus(q, steps + 1)
       IN IF st # "running" THEN [path |-> <<p, q>>, status |-> st]
          ELSE LET rest == Walk(out, dir, q, steps + 1)
               IN [path |-> <<p>> \o rest.path, status |-> rest.status]

\* the (3, N) array of the points, or the exception raised
integrate_one_way(out, direction, seed, rtol, atol) ==
  LET w == Walk(out, direction, seed, 0) IN
  IF w.status = "NullFieldError"
  THEN [exc |-> "NullFieldError", y |-> <<>>]
  ELSE [exc |-> "None", y |-> Transpose(w.path)]

----------------------------------------------------------------------------
(* Inputs of trace *)

SeedPool ==
  {<<r, 0, 0>> : r \in Shell} \cup {<<NaN, 0, 0>>, <<RInner + 1, 0, PosInf>>}

RECURSIVE Flatten(_)
Flatten(rows) == IF rows = <<>> THEN <<>> ELSE Head(rows) \o Flatten(Tail(rows))

\* (n, 3) batches
Batches ==
  UNION {{[shape |-> <<n, 3>>, data |-> Flatten(rows)] : rows \in [1..n -> SeedPool]}
         : n \in 0..MaxSeeds}

\* a single seed given as a rank-1 sequence
SingleSeeds == {[shape |-> <<3>>, data |-> s] : s \in SeedPool}

Filled(shape) == [shape |-> shape, data |-> [k \in 1..Prod(shape) |-> RInner]]

OtherShapes ==
  {<<>>, <<0>>, <<1>>, <<2>>, <<4>>,
   <<0, 2>>, <<1, 2>>, <<1, 4>>, <<2, 1>>, <<3, 2>>,
   <<1, 1, 3>>, <<1, 3, 1>>, <<2, 3, 3>>, <<3, 3, 3>>, <<1, 3, 3, 1>>}

SeedInputs == Batches \cup SingleSeeds \cup {Filled(s) : s \in OtherShapes}

NoArray == [shape |-> <<>>, data |-> <<>>]

NoOutput == [dtime |-> "None", B |-> [r \in Shell |-> "null"]]

----------------------------------------------------------------------------
(* PythonTracer.trace *)

\* pfsspy.FieldLine(x=..., y=..., z=..., frame=..., obstime=..., ...) followed
\* by the two attribute assignments
MakeFieldLine(xout, out) ==
  [x |-> TimesRsun(Column(xout, 1)),
   y |-> TimesRsun(Column(xout, 2)),
   z |-> TimesRsun(Column(xout, 3)),
   frame |-> "HeliographicCarrington",
   obstime |-> out.dtime,
   representation_type |-> "cartesian",
   output |-> out,
   expansion_factor |-> "None"]

\* xback = np.flip(xback, axis=1); xout = np.row_stack((xback.T, xforw.T))
Stitch(xf, xb) == row_stack(Transpose(flip_axis1(xb)), Transpose(xf))

\* flines.append(fline)
AppendLine_front(fl, fline) == <<fline>> \o fl

AppendLine(fl, fline) == Append(fl, fline)

Call(direction, seed, rtol, atol) ==
  [direction |-> direction, seed |-> seed, rtol |-> rtol, atol |-> atol]

Init ==
  /\ pc = "ready"
  /\ self \in {init(a, r) : a \in Tols, r \in Tols}
  /\ arg = NoArray
  /\ output = NoOutput
  /\ seeds = NoArray
  /\ i = 0
  /\ xforw = <<>>
  /\ flines = <<>>
  /\ calls = <<>>
  /\ err = "None"

\* a direct call of the static method
Validate(a) ==
  /\ pc = "ready"
  /\ arg' = a
  /\ err' = validate_seeds_shape(a)
  /\ pc' = "validated"
  /\ UNCHANGED <<self, output, seeds, i, xforw, flines, calls>>

\* seeds = np.atleast_2d(seeds); self.validate_seeds_shape(seeds); flines = []
TraceBegin(a, out) ==
  /\ pc = "ready"
  /\ arg' = a
  /\ output' = out
  /\ seeds' = atleast_2d(a)
  /\ err' = validate_seeds_shape(seeds')
  /\ pc' = IF err' = "None" THEN "loop" ELSE "raised"
  /\ i' = 1
  /\ flines' = <<>>
  /\ UNCHANGED <<self, xforw, calls>>

\* xforw = output._integrate_one_way(1, seed, self.rtol, self.atol)
IntegrateForward ==
  /\ pc = "loop"
  /\ i <= NumRows(seeds)
  /\ LET seed == SeedAt(seeds, i)
         res  == integrate_one_way(output, 1, seed, self.rtol, self.atol)
     IN /\ calls' = Append(calls, Call(1, seed, self.rtol, self.atol))
        /\ err' = res.exc
        /\ xforw' = res.y
        /\ pc' = IF res.exc = "None" THEN "back" ELSE "raised"
  /\ UNCHANGED <<self, arg, output, seeds, i, flines>>

\* xback = output._integrate_one_way(-1, ...) up to flines.append(fline)
IntegrateBackward ==
  /\ pc = "back"
  /\ LET seed == SeedAt(seeds, i)
         res  == integrate_one_way(output, 0 - 1, seed, self.rtol, self.atol)
     IN /\ calls' = Append(calls, Call(0 - 1, seed, self.rtol, self.atol))
        /\ err' = res.exc
        /\ IF res.exc = "None"
           THEN /\ flines' = AppendLine(flines, MakeFieldLine(Stitch(xforw, res.y), output))
                /\ i' = i + 1
                /\ pc' = "loop"
           ELSE /\ pc' = "raised"
                /\ UNCHANGED <<flines, i>>
  /\ xforw' = <<>>
  /\ UNCHANGED <<self, arg, output, seeds>>

\* return flines
TraceReturn ==
  /\ pc = "loop"
  /\ i > NumRows(seeds)
  /\ pc' = "returned"
  /\ UNCHANGED <<self, arg, output, seeds, i, xforw, flines, calls, err>>

Next ==
  \/ pc = "ready" /\ \E a \in SeedInputs : Validate(a)
  \/ pc = "ready" /\ \E a \in SeedInputs, out \in Outputs : TraceBegin(a, out)
  \/ IntegrateForward
  \/ IntegrateBackward
  \/ TraceReturn

Spec == Init /\ [][Next]_vars

----------------------------------------------------------------------------
(* What the two half-traces of a seed are, point by point *)

OutwardPath(seed) == Walk(output, 1, seed, 0).path

InwardPath(seed) == Walk(output, 0 - 1, seed, 0).path

OutwardStatus(seed) == Walk(output, 1, seed, 0).status

InwardStatus(seed) == Walk(output, 0 - 1, seed, 0).status

\* the points of a field line, in order
Points(f) ==
  [k \in 1..Len(f.x.value) |-> <<f.x.value[k], f.y.value[k], f.z.value[k]>>]

ExpectedPoints(seed) == Reverse(InwardPath(seed)) \o OutwardPath(seed)

InTrace == pc \in {"loop", "back", "returned", "raised"}

WellShaped(a) ==
  \/ ndim(a) = 1 /\ a.shape[1] = 3
  \/ ndim(a) = 2 /\ a.shape[2] = 3

HasNonFinite(a) == \E k \in 1..Len(a.data) : ~IsFinite(a.data[k])

Succeeds(seed) ==
  /\ OutwardStatus(seed) \in {"reached-inner", "reached-outer"}
  /\ InwardStatus(seed) \in {"reached-inner", "reached-outer"}

NonConverged(seed) ==
  \/ OutwardStatus(seed) = "max-steps-exceeded"
  \/ InwardStatus(seed) = "max-steps-exceeded"

\* a tracer whose tolerances are strictly positive
ValidConfig == self.atol > 0 /\ self.rtol > 0

HasNonConvergedMarker(f) == "converged" \in DOMAIN f /\ f.converged = FALSE

----------------------------------------------------------------------------
(* Claims *)

\* C1: when trace returns for an (n, 3) batch, it returns exactly n field
\* lines and the i-th line is the one stitched from the two half-traces
\* started at the i-th seed of the batch as it was passed in.
Thm_C1 ==
  (pc = "returned" /\ ndim(arg) = 2) =>
    /\ Len(flines) = arg.shape[1]
    /\ \A k \in 1..Len(flines) : Points(flines[k]) = ExpectedPoints(SeedAt(arg, k))

Wit_C1 ==
  /\ pc = "returned"
  /\ ndim(arg) = 2
  /\ Len(flines) = 2
  /\ SeedAt(arg, 1) # SeedAt(arg, 2)
  /\ Points(flines[1]) # Points(flines[2])

\* C2: validate_seeds_shape raises for every array that is not rank 2 (the
\* "2D array" error, whatever its second dimension is, so the rank is checked
\* first), raises the "(n, 3)" error for a rank-2 array whose second dimension
\* is not 3, and raises nothing for shape (n, 3).
Thm_C2 ==
  pc = "validated" =>
    /\ (ndim(arg) # 2 => err = "ValueError_2D")
    /\ (ndim(arg) = 2 /\ arg.shape[2] # 3 => err = "ValueError_n3")
    /\ (ndim(arg) = 2 /\ arg.shape[2] = 3 => err = "None")

Wit_C2 ==
  /\ pc = "validated"
  /\ ndim(arg) = 3
  /\ arg.shape[2] # 3
  /\ err = "ValueError_2D"

\* C3: a batch with a non-finite coordinate is rejected by trace: the
\* integrator is never called, no field line is built and trace does not
\* return.
Cex_C3 ==
  (InTrace /\ ValidConfig /\ HasNonFinite(arg)) =>
    /\ pc # "returned"
    /\ calls = <<>>
    /\ flines = <<>>

\* C4: for finite seeds, when both half-traces start with the seed, the stitched line holds
\* the seed once: its length is len(inward) + len(outward) - 1.
Cex_C4 ==
  \A k \in 1..Len(flines) :
    LET seed == SeedAt(seeds, k) IN
    (/\ ValidConfig
     /\ ~HasNonFinite(arg)
     /\ InwardPath(seed)[1] = seed
     /\ OutwardPath(seed)[1] = seed) =>
      Len(Points(flines[k])) = Len(InwardPath(seed)) + Len(OutwardPath(seed)) - 1

\* C5: the field line of a finite seed one of whose half-traces stopped at the
\* maximum step count carries a non-converged marker.
Cex_C5 ==
  \A k \in 1..Len(flines) :
    (ValidConfig /\ ~HasNonFinite(arg) /\ NonConverged(SeedAt(seeds, k))) =>
      HasNonConvergedMarker(flines[k])

\* C6: when trace has ended on a well-shaped batch of finite seeds, every seed whose own two
\* integrations reach a boundary has its field line returned, whatever
\* happened to the other seeds of the batch.
Cex_C6 ==
  (/\ pc \in {"returned", "raised"}
   /\ ~IsShapeError(err)
   /\ ValidConfig
   /\ ~HasNonFinite(arg)) =>
    \A k \in 1..NumRows(seeds) :
      Succeeds(SeedAt(seeds, k)) =>
        /\ pc = "returned"
        /\ k <= Len(flines)
        /\ Points(flines[k]) = ExpectedPoints(SeedAt(seeds, k))

\* C7: no integrator call is ever made with a tolerance that is not
\* strictly positive.
Cex_C7 ==
  \A c \in 1..Len(calls) : calls[c].rtol > 0 /\ calls[c].atol > 0

\* C8: for every traced seed the integrator is called twice, first with
\* direction +1 and then with direction -1, from that seed and with the
\* tracer's rtol and atol; the line is the reversed inward sequence followed
\* by the outward sequence, from the inward terminus to the outward terminus.
Thm_C8 ==
  /\ pc \in {"loop", "returned"} => Len(calls) = 2 * Len(flines)
  /\ pc = "back" => Len(calls) = 2 * Len(flines) + 1
  /\ \A k \in 1..Len(flines) :
       LET seed == SeedAt(seeds, k)
           inw  == InwardPath(seed)
           outw == OutwardPath(seed)
           pts  == Points(flines[k])
       IN /\ calls[2 * k - 1] = Call(1, seed, self.rtol, self.atol)
          /\ calls[2 * k] = Call(0 - 1, seed, self.rtol, self.atol)
          /\ Len(pts) = Len(inw) + Len(outw)
          /\ \A j \in 1..Len(inw) : pts[j] = inw[Len(inw) + 1 - j]
          /\ \A j \in 1..Len(outw) : pts[Len(inw) + j] = outw[j]
          /\ pts[1] = inw[Len(inw)]
          /\ pts[Len(pts)] = outw[Len(outw)]

Wit_C8 ==
  /\ Len(flines) >= 1
  /\ Len(calls) >= 2
  /\ Points(flines[1])[1] # SeedAt(seeds, 1)
  /\ Points(flines[1])[1] # Points(flines[1])[Len(Points(flines[1]))]

\* C9: a batch that is not of shape (n, 3) after promotion makes trace raise
\* a shape error, and whenever trace has raised a shape error the integrator
\* has not been called and no field line has been built.
Thm_C9 ==
  /\ (InTrace /\ ~WellShaped(arg)) => (pc = "raised" /\ IsShapeError(err))
  /\ (InTrace /\ IsShapeError(err)) => (pc = "raised" /\ calls = <<>> /\ flines = <<>>)

Wit_C9 ==
  /\ pc = "raised"
  /\ IsShapeError(err)
  /\ ndim(arg) = 2
  /\ arg.shape[1] >= 2
  /\ calls = <<>>

\* C10: trace accepts a single seed given as a rank-1 sequence of 3
\* coordinates and returns one field line for it, and rejects with a shape
\* error a rank-0 input, a rank-1 input of another length and any input of
\* rank 3 or more.
Thm_C10 ==
  InTrace =>
    /\ (ndim(arg) = 1 /\ arg.shape[1] = 3) =>
         (~IsShapeError(err) /\ (pc = "returned" => Len(flines) = 1))
    /\ (ndim(arg) = 0 \/ (ndim(arg) = 1 /\ arg.shape[1] # 3) \/ ndim(arg) >= 3) =>
         (pc = "raised" /\ IsShapeError(err))

Wit_C10 ==
  /\ pc = "returned"
  /\ ndim(arg) = 1
  /\ arg.shape[1] = 3
  /\ Len(flines) = 1
  /\ Points(flines[1]) = ExpectedPoints(arg.data)

====
